---- MODULE Spec2Model ----
(***************************************************************************)
(* Chat-with-code: the chunk extractor, the indexer and the retrieval      *)
(* ranker of backend/rag_module.py, with the store life cycle of           *)
(* backend/main.py.                                                        *)
(*                                                                         *)
(* A source file is a syntax tree as tree-sitter delivers it: the nodes in *)
(* pre-order (node 0 is the translation_unit), each with its parent and a  *)
(* label carrying what the query captures read from it.  Every leaf is one *)
(* token of one byte; an inner node spans from its first to its last leaf, *)
(* as tree-sitter nodes do.                                                *)
(***************************************************************************)
EXTENDS Integers, Sequences, FiniteSets, TLC

\* The largest number of nodes below the root of a generated syntax tree.
MaxNodes == 3
\* The most tokens a source line of a generated file holds.
TokensPerLine == 2

Max(S) == CHOOSE m \in S : \A k \in S : k <= m

---------------------------------------------------------------------------
(* Syntax trees *)

Label(t, n, a, s) == [type |-> t, name |-> n, alias |-> a, scope |-> s]

\* What the C++ grammar yields: named and anonymous classes and structs,
\* typedef'd structs, functions (plain, test-named, qualified), array
\* initialisers and any other inner node.
CppInnerLabels ==
    { Label("class_specifier", "Foo", "", ""),
      Label("class_specifier", "", "", ""),
      Label("struct_specifier", "Point", "", ""),
      Label("struct_specifier", "", "", ""),
      Label("type_definition", "Tag", "Alias", ""),
      Label("type_definition", "", "Alias", ""),
      Label("function_definition", "bar", "", ""),
      Label("function_definition", "test_parse_ok", "", ""),
      Label("function_definition", "bar", "", "Foo"),
      Label("declaration", "arr", "", ""),
      Label("other", "", "", "") }

\* The C grammar has no class_specifier and no qualified_identifier.
CInnerLabels ==
    { l \in CppInnerLabels : l.type # "class_specifier" /\ l.scope = "" }

LeafLabels ==
    { Label("comment", "", "", ""), Label("token", "", "", "") }

RECURSIVE AncSelf(_, _)
AncSelf(par, i) == IF i = 0 THEN {0} ELSE {i} \cup AncSelf(par, par[i])

\* par numbers the nodes in pre-order: a node's parent is the node before
\* it or one of that node's ancestors.
PreOrder(par) ==
    \A i \in DOMAIN par :
        IF i = 1 THEN par[i] = 0 ELSE par[i] \in AncSelf(par, i - 1)

ChildlessIn(par, i) == \A k \in DOMAIN par : par[k] # i

NodeCount(f) == Len(f.par)

\* The last node of the subtree of i (the subtree is i..SubtreeLast).
SubtreeLast(f, i) ==
    IF i = 0 THEN NodeCount(f)
    ELSE CHOOSE j \in i..NodeCount(f) :
            /\ \A k \in (i + 1)..j : i \in AncSelf(f.par, k)
            /\ (j = NodeCount(f) \/ i \notin AncSelf(f.par, j + 1))

IsLeaf(f, i) == i # 0 /\ ChildlessIn(f.par, i)

start_byte(f, i) == Cardinality({k \in 1..(i - 1) : IsLeaf(f, k)})

end_byte(f, i) == Cardinality({k \in 1..SubtreeLast(f, i) : IsLeaf(f, k)})

\* The row of the node, counted from 0.
start_line_ZeroBased(f, i) == start_byte(f, i) \div f.tpl

\* node.start_point[0] + 1
start_line(f, i) == (start_byte(f, i) \div f.tpl) + 1

node_type(f, i) == IF i = 0 THEN "translation_unit" ELSE f.lab[i].type

\* code_bytes[node.start_byte:node.end_byte]: the text of the subtree, each
\* node with its label and its place in the subtree.
get_node_content(f, i) ==
    [k \in 1..(SubtreeLast(f, i) - i + 1) |->
        <<f.lab[i + k - 1], IF k = 1 THEN 0 ELSE f.par[i + k - 1] - i + 1>>]

\* The extension of a path, lower-cased (os.path.splitext(...)[1].lower()).
splitext(f) == f.ext

basename(f) == "src" \o f.ext

\* The files of the extractor's runs: every tree of at most MaxNodes nodes
\* whose leaves are tokens or comments and whose inner nodes are constructs
\* of the file's grammar.
RECURSIVE LabelSeqs(_, _, _)
LabelSeqs(par, inner, n) ==
    IF n = 0 THEN {<<>>}
    ELSE { Append(s, l) :
             s \in LabelSeqs(par, inner, n - 1),
             l \in IF ChildlessIn(par, n) THEN LeafLabels ELSE inner }

TreesOf(inner, max) ==
    UNION { UNION { { [par |-> par, lab |-> lab] : lab \in LabelSeqs(par, inner, n) }
                    : par \in { p \in [1..n -> 0..(n - 1)] : PreOrder(p) } }
            : n \in 0..max }

\* A file on disk: its extension, its line layout, its tree, and whether
\* open(file_path, 'rb') succeeds.
File(ext, tpl, par, lab) ==
    [ext |-> ext, tpl |-> tpl, par |-> par, lab |-> lab, readable |-> TRUE]

\* The same path when it cannot be opened (removed, or no permission).
Unreadable(f) == [f EXCEPT !.readable = FALSE]

\* struct Point { ... };  int add(...) { ... }  // adds two ints
\* one construct per line.
ScenarioA ==
    File(".c", 1, <<0, 1, 0, 3, 0>>,
         << Label("struct_specifier", "Point", "", ""), Label("token", "", "", ""),
            Label("function_definition", "add", "", ""), Label("token", "", "", ""),
            Label("comment", "", "", "") >>)

\* class Foo { void bar() { return; } };
ScenarioB ==
    File(".cpp", 2, <<0, 1, 2, 3, 0>>,
         << Label("class_specifier", "Foo", "", ""), Label("other", "", "", ""),
            Label("function_definition", "bar", "", ""), Label("token", "", "", ""),
            Label("token", "", "", "") >>)

\* /* a */ /* a */ int f() { /* a */ }   on one line
TwoComments ==
    File(".c", 4, <<0, 0, 0, 3>>,
         << Label("comment", "", "", ""), Label("comment", "", "", ""),
            Label("function_definition", "bar", "", ""), Label("comment", "", "", "") >>)

\* void test_parse_ok() {}  void Foo::test_parse_ok() {}
\* void Foo::TestParse() {}    void TestParse() {}
ScenarioC ==
    File(".cpp", 1, <<0, 1, 0, 3, 0, 5, 0, 7>>,
         << Label("function_definition", "test_parse_ok", "", ""), Label("token", "", "", ""),
            Label("function_definition", "test_parse_ok", "", "Foo"), Label("token", "", "", ""),
            Label("function_definition", "TestParse", "", "Foo"), Label("token", "", "", ""),
            Label("function_definition", "TestParse", "", ""), Label("token", "", "", "") >>)

\* namespace { struct Point { int x; };  /* c */ }  int tail;
\* a subtree three levels deep, left by climbing twice.
ScenarioDeep ==
    File(".cpp", 2, <<0, 1, 2, 3, 1, 0>>,
         << Label("other", "", "", ""), Label("other", "", "", ""),
            Label("struct_specifier", "Point", "", ""), Label("token", "", "", ""),
            Label("comment", "", "", ""), Label("token", "", "", "") >>)

\* typedef struct Tag { int x; } Alias;  // c
\* the keyword, the struct specifier and the alias below the typedef.
ScenarioTypedef ==
    File(".c", 6, <<0, 1, 1, 3, 1, 0>>,
         << Label("type_definition", "Tag", "Alias", ""), Label("token", "", "", ""),
            Label("struct_specifier", "Tag", "", ""), Label("token", "", "", ""),
            Label("token", "", "", ""), Label("comment", "", "", "") >>)

\* typedef struct { int x; } Alias;   the struct has no tag.
ScenarioAnon ==
    File(".c", 1, <<0, 1, 1, 3, 1>>,
         << Label("type_definition", "", "Alias", ""), Label("token", "", "", ""),
            Label("struct_specifier", "", "", ""), Label("token", "", "", ""),
            Label("token", "", "", "") >>)

\* A named struct that ends with a named struct (both end at one byte),
\* then a comment.
ScenarioNested ==
    File(".c", 1, <<0, 1, 2, 0>>,
         << Label("struct_specifier", "Point", "", ""),
            Label("struct_specifier", "Point", "", ""),
            Label("token", "", "", ""), Label("comment", "", "", "") >>)

ScenarioFiles ==
    {ScenarioA, ScenarioB, ScenarioC, ScenarioDeep, TwoComments,
     ScenarioTypedef, ScenarioAnon, ScenarioNested}

\* The files of at most max nodes, with the scenario files.
SourceFiles(max) ==
    { File(".cpp", tpl, t.par, t.lab) :
        t \in TreesOf(CppInnerLabels, max), tpl \in 1..TokensPerLine }
    \cup { File(".c", tpl, t.par, t.lab) :
        t \in TreesOf(CInnerLabels, max), tpl \in 1..TokensPerLine }
    \cup { File(".py", 1, <<0>>, << Label("comment", "", "", "") >>) }
    \cup ScenarioFiles
    \cup { Unreadable(f) : f \in ScenarioFiles }

---------------------------------------------------------------------------
(* extract_code_chunks *)

\* Lines 164-189: the grammar of an extension; "" when it is unsupported.
LanguageOf(ext) ==
    IF ext \in {".cpp", ".hpp", ".cxx"} THEN "cpp"
    ELSE IF ext \in {".c", ".h"} THEN "c"
    ELSE ""

\* Lines 195-210: current_language.query(...) succeeds on every pattern of
\* the family; bad names the families whose patterns the installed grammar
\* rejects.
QueriesCompile(lang, bad) == lang \notin bad

\* The open() of lines 212-217 taken to succeed always.
Readable_Always(f) == TRUE

\* Lines 212-217: open(file_path, 'rb') and read() succeed.
Readable(f) == f.readable

\* class_pattern_str is empty for C, so class_query is None there.
class_query(lang) == lang = "cpp"

ClassMatch(l) == l.type = "class_specifier" /\ l.name # ""
StructMatch(l) == l.type = "struct_specifier" /\ l.name # ""
\* The typedef pattern of C_STRUCT_QUERY_PATTERN asks for a struct tag.
TypedefMatch(l) == l.type = "type_definition" /\ l.name # "" /\ l.alias # ""
ArrayMatch(l) == l.type = "declaration" /\ l.name # ""

PatternMatches(pattern, l) ==
    IF pattern = "class" THEN ClassMatch(l)
    ELSE IF pattern = "struct" THEN StructMatch(l)
    ELSE IF pattern = "typedef_struct" THEN TypedefMatch(l)
    ELSE ArrayMatch(l)

\* The first node of the subtree of i, in document order, that the pattern
\* matches: captures() lists the matches of the whole subtree.
FirstMatch(f, i, pattern) ==
    LET hits == {k \in i..SubtreeLast(f, i) : k # 0 /\ PatternMatches(pattern, f.lab[k])}
    IN  IF hits = {} THEN 0
        ELSE CHOOSE k \in hits : \A m \in hits : k <= m

\* get_name_from_capture(class_query.captures(node), "class.name")
class_name_capture(f, i) ==
    LET k == FirstMatch(f, i, "class") IN IF k = 0 THEN "" ELSE f.lab[k].name

struct_name_capture(f, i) ==
    LET k == FirstMatch(f, i, "struct") IN IF k = 0 THEN "" ELSE f.lab[k].name

\* Only the C struct query has the typedef pattern.
typedef_struct_name_capture(f, i, lang) ==
    LET k == FirstMatch(f, i, "typedef_struct")
    IN  IF lang # "c" \/ k = 0 THEN "" ELSE f.lab[k].name

typedef_alias_name_capture(f, i, lang) ==
    LET k == FirstMatch(f, i, "typedef_struct")
    IN  IF lang # "c" \/ k = 0 THEN "" ELSE f.lab[k].alias

array_name_capture(f, i) ==
    LET k == FirstMatch(f, i, "array") IN IF k = 0 THEN "" ELSE f.lab[k].name

\* get_function_name_and_scope: <<final_func_name, scope_name>>.
get_function_name_and_scope(l) ==
    IF l.scope # "" THEN <<l.scope \o "::" \o l.name, l.scope>>
    ELSE <<l.name, "">>

\* TEST_FUNCTION_NAME_PATTERN.search(name), on a name "scope::leaf" or
\* "leaf".  Every alternative ends in [\w\d_]*$, and ':' is no word
\* character: a match lies in the leaf, and an alternative anchored with ^
\* matches only a name without a scope.
LeafMatchesFromStart(leaf) == leaf \in {"test_parse_ok"}
LeafMatchesInside(leaf) == leaf \in {"TestParse"}
TEST_FUNCTION_NAME_PATTERN(l) ==
    \/ LeafMatchesInside(l.name)
    \/ (l.scope = "" /\ LeafMatchesFromStart(l.name))

\* No candidate is rejected.
RangesNest_Never(es, ee, ns, ne) == FALSE

\* Only a candidate with the range of an accepted chunk is rejected.
RangesNest_OnlyEqual(es, ee, ns, ne) == es = ns /\ ee = ne

\* The check with its first half lost: only a candidate that holds an
\* accepted range is rejected.
RangesNest_OnlyHolds(es, ee, ns, ne) == ns <= es /\ ne >= ee

\* Lines 275-276: the candidate lies in an accepted range, or holds one.
RangesNest(es, ee, ns, ne) ==
    \/ (es <= ns /\ ee >= ne)
    \/ (ns <= es /\ ne >= ee)

\* Lines 283-290: the innermost frame whose end is beyond the node's start.
ScopeLookup(stack, sb, kind) ==
    LET covering == {k \in 1..Len(stack) : sb < stack[k].end_byte}
    IN  IF covering = {} THEN ""
        ELSE LET top == stack[Max(covering)]
             IN  IF top.kind = kind THEN top.name ELSE ""

\* The chunk put in front of the list.
AppendChunk_AtFront(chunks, chunk) == <<chunk>> \o chunks

\* Line 295: chunks.append({...}).
AppendChunk(chunks, chunk) == Append(chunks, chunk)

\* add_chunk(node, chunk_type, ...), on the walker state w.
add_chunk(f, w, i, chunk_type, func_name, class_name, struct_name, array_name, tcf_name) ==
    LET ns == start_byte(f, i)
        ne == end_byte(f, i)
    IN  IF \E e \in w.processed_nodes : RangesNest(e[1], e[2], ns, ne)
        THEN w
        ELSE [w EXCEPT
                !.chunks = AppendChunk(@,
                    [content |-> get_node_content(f, i),
                     source |-> basename(f),
                     start_line |-> start_line(f, i),
                     type |-> chunk_type,
                     function_name |-> func_name,
                     class_name |-> IF class_name # "" THEN class_name
                                    ELSE ScopeLookup(w.scope_stack, ns, "class"),
                     struct_name |-> IF struct_name # "" THEN struct_name
                                     ELSE ScopeLookup(w.scope_stack, ns, "struct"),
                     array_name |-> array_name,
                     test_case_function_name |-> tcf_name]),
                !.processed_nodes = @ \cup {<<ns, ne, node_type(f, i)>>}]

push(w, kind, name, end) ==
    [w EXCEPT !.scope_stack =
        Append(@, [kind |-> kind, name |-> name, end_byte |-> end])]

\* One frame popped at most (an if in place of the while).
PopExpired_Once(stack, sb) ==
    IF stack # <<>> /\ sb >= stack[Len(stack)].end_byte
    THEN SubSeq(stack, 1, Len(stack) - 1)
    ELSE stack

\* Lines 319-320.
RECURSIVE PopExpired(_, _)
PopExpired(stack, sb) ==
    IF stack # <<>> /\ sb >= stack[Len(stack)].end_byte
    THEN PopExpired(SubSeq(stack, 1, Len(stack) - 1), sb)
    ELSE stack

\* Lines 322-384: the classification of the node under the cursor.
Classify(f, w, i) ==
    LET lang == LanguageOf(splitext(f))
        t == node_type(f, i)
        eb == end_byte(f, i)
    IN  IF t = "class_specifier" /\ class_query(lang) THEN
            LET nm == class_name_capture(f, i)
            IN  IF nm # ""
                THEN push(add_chunk(f, w, i, "class", "", nm, "", "", ""), "class", nm, eb)
                ELSE w
        ELSE IF t = "struct_specifier" THEN
            LET nm == struct_name_capture(f, i)
            IN  IF nm # ""
                THEN push(add_chunk(f, w, i, "struct", "", "", nm, "", ""), "struct", nm, eb)
                ELSE w
        ELSE IF t = "type_definition" THEN
            LET tag == typedef_struct_name_capture(f, i, lang)
                alias == typedef_alias_name_capture(f, i, lang)
            IN  IF alias # ""
                THEN push(add_chunk(f, w, i, "struct", "", "", alias, "", ""), "struct", alias, eb)
                ELSE IF tag # ""
                THEN push(add_chunk(f, w, i, "struct", "", "", tag, "", ""), "struct", tag, eb)
                ELSE w
        ELSE IF t = "function_definition" THEN
            LET ns == get_function_name_and_scope(f.lab[i])
                isTest == TEST_FUNCTION_NAME_PATTERN(f.lab[i])
            IN  add_chunk(f, w, i,
                          IF isTest THEN "test_case_function" ELSE "function",
                          ns[1],
                          IF ns[2] # "" /\ lang = "cpp" THEN ns[2] ELSE "",
                          IF ns[2] # "" /\ lang = "c" THEN ns[2] ELSE "",
                          "",
                          IF isTest THEN ns[1] ELSE "")
        ELSE IF t = "declaration" THEN
            LET nm == array_name_capture(f, i)
            IN  IF nm # "" THEN add_chunk(f, w, i, "array_init", "", "", "", nm, "") ELSE w
        ELSE IF t = "comment" THEN
            add_chunk(f, w, i, "comment", "", "", "", "", "")
        ELSE w

\* The tree cursor: 0 when the move fails (node 0 is the root, never a target).
goto_first_child(f, i) ==
    IF i < NodeCount(f) /\ f.par[i + 1] = i THEN i + 1 ELSE 0

goto_next_sibling(f, i) ==
    LET j == SubtreeLast(f, i) + 1
    IN  IF i # 0 /\ j <= NodeCount(f) /\ f.par[j] = f.par[i] THEN j ELSE 0

\* Lines 393-397: climb until a next sibling exists; 0 when the root is left.
RECURSIVE Climb(_, _)
Climb(f, i) ==
    IF i = 0 THEN 0
    ELSE LET p == f.par[i]
         IN  IF goto_next_sibling(f, p) # 0 THEN goto_next_sibling(f, p)
             ELSE Climb(f, p)

\* The next sibling tried before the first child.
Advance_SiblingFirst(f, i) ==
    IF goto_next_sibling(f, i) # 0 THEN goto_next_sibling(f, i)
    ELSE IF goto_first_child(f, i) # 0 THEN goto_first_child(f, i)
    ELSE Climb(f, i)

\* Lines 387-397.
Advance(f, i) ==
    IF goto_first_child(f, i) # 0 THEN goto_first_child(f, i)
    ELSE IF goto_next_sibling(f, i) # 0 THEN goto_next_sibling(f, i)
    ELSE Climb(f, i)

\* Lines 157, 266-268: the locals of a call as it begins; visited lists
\* the nodes the cursor has been on.
NotStarted ==
    [cursor |-> 0, pc |-> "start", chunks |-> <<>>, processed_nodes |-> {},
     scope_stack |-> <<>>, visited |-> <<>>]

\* Lines 157-314: the walker as the loop is entered, or the early return
\* (no grammar for the extension, queries that do not compile, a file that
\* cannot be read, a root without children).
ExtractStart(f, bad) ==
    IF LanguageOf(splitext(f)) = "" THEN [NotStarted EXCEPT !.pc = "done"]
    ELSE IF ~QueriesCompile(LanguageOf(splitext(f)), bad)
         THEN [NotStarted EXCEPT !.pc = "done"]
    ELSE IF ~Readable(f) THEN [NotStarted EXCEPT !.pc = "done"]
    ELSE IF goto_first_child(f, 0) = 0 THEN [NotStarted EXCEPT !.pc = "done"]
    ELSE [NotStarted EXCEPT !.pc = "walk", !.cursor = 1]

\* One pass of the while loop of lines 316-397.
WalkStep(f, w) ==
    LET i == w.cursor
        popped == [w EXCEPT !.scope_stack = PopExpired(@, start_byte(f, i)),
                            !.visited = Append(@, i)]
        seen == Classify(f, popped, i)
        nxt == Advance(f, i)
    IN  IF nxt = 0 THEN [seen EXCEPT !.pc = "done"]
        ELSE [seen EXCEPT !.cursor = nxt]

RECURSIVE RunWalk(_, _)
RunWalk(f, w) == IF w.pc = "done" THEN w ELSE RunWalk(f, WalkStep(f, w))

\* extract_code_chunks(file_path): the list returned.
extract_code_chunks(f, bad) == RunWalk(f, ExtractStart(f, bad)).chunks

---------------------------------------------------------------------------
(* The store (chromadb), the process and the uploads *)

\* batch_size of process_and_store_uploaded_file, scaled down from 100 so
\* that a file of three chunks fills a batch.
BatchSize == 2
\* The largest top_k of a retrieval.
MaxTopK == 2
\* The largest distance the store reports (distances are 0..MaxDist).
MaxDist == 1

\* The values PYTHONHASHSEED takes at the start of a process.
Seeds == {0, 1}
Queries == {0, 1}
\* filter_type: "" is no filter.
Filters == {"", "comment"}
Thresholds == 0..(MaxDist + 1)

\* What a caller uploads: a file name (stem and extension) and its bytes.
Upload(stem, f) == [stem |-> stem, bytes |-> f]

Notes == File(".txt", 1, <<0>>, << Label("comment", "", "", "") >>)

\* A file without any construct.
Empty == File(".c", 1, <<>>, <<>>)

Uploads ==
    { Upload("a", ScenarioA), Upload("dup", TwoComments), Upload("notes", Notes),
      Upload("empty", Empty) }

original_filename(u) == u.stem \o u.bytes.ext

\* The extension of the upload kept as it is.
TempSuffix_Kept(u) == u.bytes.ext

\* Lines 413-415: the suffix of the temporary file.
TempSuffix(u) ==
    IF u.bytes.ext \in {".c", ".cpp", ".h", ".hpp", ".cxx"} THEN u.bytes.ext ELSE ".cpp"

\* Lines 417-419: the temporary file holds the uploaded bytes.
TempFile(u) == File(TempSuffix(u), u.bytes.tpl, u.bytes.par, u.bytes.lab)

\* hash(str) of CPython: keyed by the seed of the process.
PyHash(seed, content) == <<seed, content>>

\* Lines 432-433: uuid5 of "<filename>-<start_line>-<hash>".
ChunkId(seed, filename, chunk) ==
    <<filename, chunk.start_line, PyHash(seed, chunk.content)>>

MetaFields ==
    {"source", "start_line", "type", "function_name", "class_name",
     "struct_name", "array_name", "test_case_function_name"}

\* Lines 435-451: what one chunk adds to the batch lists.
BatchEntry(seed, filename, chunk) ==
    [id |-> ChunkId(seed, filename, chunk),
     item |-> [chunk EXCEPT !.source = filename]]

BatchIds(batch) == {batch[k].id : k \in 1..Len(batch)}

\* collection.add of chromadb: a batch naming an id twice is refused; an id
\* the collection holds already is left as it is.
AddRefused(batch) == Cardinality(BatchIds(batch)) # Len(batch)

\* A write that is acknowledged and lost.
StoreAdd_Lost(store, batch) == store

StoreAdd(store, batch) ==
    store \cup { batch[k] : k \in { j \in 1..Len(batch) :
                                      \A e \in store : e.id # batch[j].id } }

\* The distance of a stored document from a query (the embeddings of
\* all-MiniLM-L6-v2 are a function of the text).
Dist(q, content) == (q + Len(content)) % (MaxDist + 1)

Matching(store, filter) ==
    IF filter = "" THEN store ELSE { e \in store : e.item.type = filter }

Min2(a, b) == IF a < b THEN a ELSE b

\* collection.query of chromadb: the n_results nearest documents that pass
\* the where clause, nearest first (ties in any order).
StoreQuery(store, q, top_k, filter) ==
    LET m == Matching(store, filter)
        n == Min2(top_k, Cardinality(m))
        d(e) == Dist(q, e.item.content)
    IN  { r \in [1..n -> m] :
            /\ \A j, k \in 1..n : j < k => (r[j] # r[k] /\ d(r[j]) <= d(r[k]))
            /\ \A e \in m : (\A k \in 1..n : r[k] # e) =>
                              \A k \in 1..n : d(r[k]) <= d(e) }

\* The neighbours as retrieve_relevant_chunks reads them: documents,
\* metadatas and distances.
Neighbours(store, q, r) ==
    [k \in 1..Len(r) |-> [item |-> r[k].item, distance |-> Dist(q, r[k].item.content)]]

---------------------------------------------------------------------------
(* retrieve_relevant_chunks *)

\* The comparison turned round.
PassesThreshold_Inverted(distance, similarity_threshold) ==
    distance >= similarity_threshold

\* The comparison off by one.
PassesThreshold_Inclusive(distance, similarity_threshold) ==
    distance <= similarity_threshold

\* Line 528.
PassesThreshold(distance, similarity_threshold) == distance < similarity_threshold

\* Lines 521-542.
ThresholdFilter(results, similarity_threshold) ==
    LET keep(r) == PassesThreshold(r.distance, similarity_threshold)
    IN  SelectSeq(results, keep)

\* Inserts r behind every entry that is not farther (list.sort is stable).
RECURSIVE InsertByDistance(_, _)
InsertByDistance(sorted, r) ==
    IF sorted = <<>> THEN <<r>>
    ELSE IF sorted[Len(sorted)].distance <= r.distance THEN Append(sorted, r)
    ELSE Append(InsertByDistance(SubSeq(sorted, 1, Len(sorted) - 1), r),
                sorted[Len(sorted)])

RECURSIVE SortFrom(_, _)
SortFrom(seq, k) ==
    IF k = 0 THEN <<>> ELSE InsertByDistance(SortFrom(seq, k - 1), seq[k])

\* The sort left out.
SortByDistance_Unsorted(retrieved_info) == retrieved_info

\* Line 544.
SortByDistance(retrieved_info) == SortFrom(retrieved_info, Len(retrieved_info))

\* Lines 549-551.
unique_key(r) == r.item

\* Every occurrence kept.
RECURSIVE Deduplicate_KeepAll(_, _)
Deduplicate_KeepAll(retrieved_info, k) ==
    IF k = 0 THEN <<>>
    ELSE Append(Deduplicate_KeepAll(retrieved_info, k - 1), retrieved_info[k])

\* Lines 546-554: the first k entries, each key once, first occurrence kept.
RECURSIVE Deduplicate(_, _)
Deduplicate(retrieved_info, k) ==
    IF k = 0 THEN <<>>
    ELSE LET before == Deduplicate(retrieved_info, k - 1)
         IN  IF \E j \in 1..(k - 1) :
                    unique_key(retrieved_info[j]) = unique_key(retrieved_info[k])
             THEN before
             ELSE Append(before, retrieved_info[k])

\* Lines 521-570: the list returned for the store's answer.
RankNeighbours(results, similarity_threshold) ==
    LET sorted == SortByDistance(ThresholdFilter(results, similarity_threshold))
    IN  Deduplicate(sorted, Len(sorted))

\* The guard of lines 409-411.
IndexingRefused_Never(coll) == FALSE

IndexingRefused(coll) == coll = "None"

\* The guard of lines 495-497.
RetrievalSkipped(coll) == coll = "None"

---------------------------------------------------------------------------
VARIABLES
    file,        \* the file of the extraction pass under way
    walker,      \* the state of that pass
    bad_queries, \* the grammar families whose query patterns do not compile
    extractions, \* the calls of extract_code_chunks that run side by side
    collection,  \* rag_module.collection: "None" or "open"
    db,          \* the entries persisted under data/chroma_db
    hash_seed,   \* the hash seed of the running process
    temp_files,  \* the temporary files on disk
    idx,         \* the indexing call under way
    call,        \* the last call finished, as its caller saw it
    users,       \* the committed rows of the users table of database.db
    writer,      \* the signup request whose connection holds the write lock
    signups      \* the /api/signup requests, each with its place in signup()

vars == <<file, walker, bad_queries, extractions, collection, db, hash_seed, temp_files, idx, call, users, writer, signups>>

signupVars == <<users, writer, signups>>

storeVars == <<collection, db, hash_seed, temp_files, idx, call, signupVars>>

\* The number of /api/signup requests the server works on side by side.
MaxSignups == 2

Requests == 1..MaxSignups

\* The emails of the requests.
Emails == {"ann@example.org", "bob@example.org"}

\* A request that has not reached the server yet.
NotSent == [pc |-> "new", email |-> "", answer |-> ""]

\* server.py lines 27-38 and 63: the table as init_db leaves it, before
\* any request.
SignupStart ==
    /\ users = {}
    /\ writer = 0
    /\ signups = [r \in Requests |-> NotSent]

Idle == [pc |-> "idle"]
NoCall == [op |-> "none"]

StoreStart ==
    /\ collection = "None"
    /\ db = {}
    /\ temp_files = {}
    /\ idx = Idle
    /\ call = NoCall

\* The grammar families of the two parsers.
Families == {"c", "cpp"}

\* The installed grammars take the query patterns of both families, or
\* (another version of the grammars) of neither.
BadQuerySets == {{}, Families}

\* One call of extract_code_chunks, stepped node by node.
InitExtract ==
    /\ file \in SourceFiles(MaxNodes)
    /\ walker = NotStarted
    /\ bad_queries \in BadQuerySets
    /\ extractions = <<>>
    /\ hash_seed = 0
    /\ StoreStart
    /\ SignupStart

\* Lines 157-314: the call up to the loop.
BeginExtract ==
    /\ walker.pc = "start"
    /\ walker' = ExtractStart(file, bad_queries)
    /\ UNCHANGED <<file, bad_queries, extractions, storeVars>>

VisitNode ==
    /\ walker.pc = "walk"
    /\ walker' = WalkStep(file, walker)
    /\ UNCHANGED <<file, bad_queries, extractions, storeVars>>

NextExtract == BeginExtract \/ VisitNode

SpecExtract == InitExtract /\ [][NextExtract]_vars

\* The largest number of nodes below the root of a tree given by its shape.
MaxShapeNodes == 5

\* Every tree shape of at most max nodes, as a C file of tokens grouped by
\* nodes no query matches: the moves of the cursor depend on the shape
\* alone.
ShapeFiles(max) ==
    UNION { { File(".c", 1, par,
                   [i \in 1..n |-> IF ChildlessIn(par, i)
                                   THEN Label("token", "", "", "")
                                   ELSE Label("other", "", "", "")])
                : par \in { p \in [1..n -> 0..(n - 1)] : PreOrder(p) } }
            : n \in 0..max }

InitWalk ==
    /\ file \in ShapeFiles(MaxShapeNodes) \cup ScenarioFiles
    /\ walker = NotStarted
    /\ bad_queries = {}
    /\ extractions = <<>>
    /\ hash_seed = 0
    /\ StoreStart
    /\ SignupStart

\* The loop runs on until it returns: the call is never suspended for good.
SpecWalk == InitWalk /\ [][NextExtract]_vars /\ WF_vars(NextExtract)

---------------------------------------------------------------------------
(* Two calls of extract_code_chunks side by side *)

\* One step of call t: the prologue (the parse is one call into the
\* parser), or one pass of the loop.  Every name the step writes is a local
\* of the call (lines 157, 266-268).
StepOf(f, w) == IF w.pc = "start" THEN ExtractStart(f, {}) ELSE WalkStep(f, w)

\* processed_nodes held in one set for all calls.
StepCall_SharedAccepted(ex, t) ==
    LET shared == UNION { ex[u].walker.processed_nodes : u \in DOMAIN ex }
        mine == [ex[t].walker EXCEPT !.processed_nodes = shared]
    IN  [ex EXCEPT ![t].walker = StepOf(ex[t].file, mine)]

StepCall(ex, t) == [ex EXCEPT ![t].walker = StepOf(ex[t].file, @)]

InitTwoCalls ==
    /\ file = Notes
    /\ walker = NotStarted
    /\ bad_queries = {}
    /\ extractions \in
          { ex \in [1..2 -> [file : ScenarioFiles, walker : {NotStarted}]] :
              ex[1].file # ex[2].file }
    /\ hash_seed = 0
    /\ StoreStart
    /\ SignupStart

StepThread ==
    \E t \in DOMAIN extractions :
        /\ extractions[t].walker.pc # "done"
        /\ extractions' = StepCall(extractions, t)
        /\ UNCHANGED <<file, walker, bad_queries, storeVars>>

NextTwoCalls == StepThread

SpecTwoCalls == InitTwoCalls /\ [][NextTwoCalls]_vars

---------------------------------------------------------------------------
(* The backend process: start, indexing, retrieval, clearing *)

InitStore ==
    /\ file = Notes
    /\ walker = NotStarted
    /\ bad_queries = {}
    /\ extractions = <<>>
    /\ hash_seed \in Seeds
    /\ StoreStart
    /\ SignupStart

\* No call is under way and the last one has been answered: the server
\* takes its requests one at a time (the handlers never await while they
\* work on the store).
Quiet == idx.pc = "idle" /\ call = NoCall

\* The caller takes the outcome of the call.
Respond ==
    /\ call # NoCall
    /\ call' = NoCall
    /\ UNCHANGED <<signupVars, file, walker, bad_queries, extractions, collection, db, hash_seed, temp_files, idx>>

\* main.lifespan: the collection is opened (get_or_create_collection).
Lifespan ==
    /\ Quiet
    /\ collection = "None"
    /\ collection' = "open"
    /\ call' = NoCall
    /\ UNCHANGED <<signupVars, file, walker, bad_queries, extractions, db, hash_seed, temp_files, idx>>

\* The process ends and a new one starts: the module is imported afresh,
\* the hash seed is drawn again, the directory of the store stays.
Restart ==
    /\ Quiet
    /\ collection' = "None"
    /\ hash_seed' \in Seeds
    /\ call' = NoCall
    /\ UNCHANGED <<signupVars, file, walker, bad_queries, extractions, db, temp_files, idx>>

\* The directory left as it was.
Cleared_Nothing(store) == store

\* Lines 97-98 of main.py: shutil.rmtree(CHROMA_DB_PATH).
Cleared(store) == {}

\* main.clear_codebase: the directory is removed and the collection opened
\* anew (200), or rmtree raises before it removes anything (500).  The
\* directory exists once lifespan has run.
ClearCodebase ==
    /\ Quiet
    /\ collection = "open"
    /\ \/ /\ db' = Cleared(db)
          /\ call' = [op |-> "clear", outcome |-> "returned", held |-> Cardinality(db)]
       \/ /\ db' = db
          /\ call' = [op |-> "clear", outcome |-> "raised", held |-> Cardinality(db)]
    /\ collection' = "open"
    /\ UNCHANGED <<signupVars, file, walker, bad_queries, extractions, hash_seed, temp_files, idx>>

\* process_and_store_uploaded_file, lines 408-419: the guard and the
\* temporary file.
ProcessBegin ==
    /\ Quiet
    /\ \E u \in Uploads :
        IF IndexingRefused(collection)
        THEN /\ call' = [op |-> "index", upload |-> u, ready |-> FALSE,
                         outcome |-> "raised", temp_created |-> FALSE,
                         extracted |-> FALSE, adds |-> 0,
                         chunks |-> <<>>, log |-> <<>>, cause |-> "collection"]
             /\ UNCHANGED <<temp_files, idx>>
        ELSE /\ temp_files' = temp_files \cup {u}
             /\ idx' = [pc |-> "extract", upload |-> u, ready |-> collection # "None",
                        chunks |-> <<>>, pos |-> 1, batch |-> <<>>, adds |-> 0,
                        log |-> <<>>, cause |-> "none"]
             /\ call' = NoCall
    /\ UNCHANGED <<signupVars, file, walker, bad_queries, extractions, collection, db, hash_seed>>

\* Line 423: the chunks of the temporary file, or an exception out of
\* extract_code_chunks (the parser, the decoding of a name).
ProcessExtract ==
    /\ idx.pc = "extract"
    /\ \/ idx' = [idx EXCEPT !.pc = "loop",
                             !.chunks = extract_code_chunks(TempFile(idx.upload),
                                                            bad_queries)]
       \/ idx' = [idx EXCEPT !.pc = "raise", !.cause = "extract"]
    /\ UNCHANGED <<signupVars, file, walker, bad_queries, extractions, collection, db, hash_seed, temp_files, call>>

\* One add call of lines 455-460 or 472-477: it goes through (ok), or raises
\* and is reported (a batch the store refuses, a store that is not there, a
\* failure of the disk).
AddCall(batch, ok) ==
    \/ /\ ok
       /\ collection = "open"
       /\ ~AddRefused(batch)
       /\ db' = StoreAdd(db, batch)
    \/ /\ ~ok
       /\ db' = db

\* A batch that failed is kept and sent again with the next chunk.
BatchAfterAdd_KeptOnFailure(batch, ok) == IF ok THEN <<>> ELSE batch

\* Lines 465-468: the batch lists are emptied whatever the add call did.
BatchAfterAdd(batch, ok) == <<>>

\* Lines 460 and 462: the line printed for the add call.
Report(batch, ok) ==
    [ok |-> ok, batch |-> batch,
     line |-> IF ok THEN "Added batch" ELSE "Error adding batch"]

\* The batch is sent when it has more chunks than batch_size.
BatchFull_Late(batch) == Len(batch) > BatchSize

\* Line 453: len(ids_batch) >= batch_size.
BatchFull(batch) == Len(batch) >= BatchSize

\* Line 435: model.encode(chunk["content"]) raises.
EmbedFails ==
    /\ idx.pc = "loop"
    /\ idx.pos <= Len(idx.chunks)
    /\ idx' = [idx EXCEPT !.pc = "raise", !.cause = "embed"]
    /\ UNCHANGED <<signupVars, file, walker, bad_queries, extractions, collection, db, hash_seed, temp_files, call>>

\* Lines 431-468: one chunk of the loop.
ProcessChunk ==
    /\ idx.pc = "loop"
    /\ idx.pos <= Len(idx.chunks)
    /\ LET chunk == idx.chunks[idx.pos]
           name == original_filename(idx.upload)
           entry == BatchEntry(hash_seed, name, chunk)
           batch == Append(idx.batch, entry)
       IN  /\ IF BatchFull(batch)
              THEN \E ok \in BOOLEAN :
                   /\ AddCall(batch, ok)
                   /\ idx' = [idx EXCEPT !.pos = @ + 1,
                                         !.batch = BatchAfterAdd(batch, ok),
                                         !.adds = @ + 1,
                                         !.log = Append(@, Report(batch, ok))]
              ELSE /\ db' = db
                   /\ idx' = [idx EXCEPT !.pos = @ + 1, !.batch = batch]
    /\ UNCHANGED <<signupVars, file, walker, bad_queries, extractions, collection, hash_seed, temp_files, call>>

\* Lines 470-482: the last batch, then collection.count().
ProcessFinal ==
    /\ idx.pc = "loop"
    /\ idx.pos > Len(idx.chunks)
    /\ IF idx.batch # <<>>
       THEN \E ok \in BOOLEAN :
            /\ AddCall(idx.batch, ok)
            /\ idx' = [idx EXCEPT !.pc = IF collection = "None" THEN "raise" ELSE "return",
                                  !.batch = <<>>, !.adds = @ + 1,
                                  !.log = Append(@, Report(idx.batch, ok))]
       ELSE /\ db' = db
            /\ idx' = [idx EXCEPT !.pc = IF collection = "None" THEN "raise" ELSE "return"]
    /\ UNCHANGED <<signupVars, file, walker, bad_queries, extractions, collection, hash_seed, temp_files, call>>

\* Line 482: collection.count() raises (the store went away under the call).
CountFails ==
    /\ idx.pc = "return"
    /\ idx' = [idx EXCEPT !.pc = "raise", !.cause = "count"]
    /\ UNCHANGED <<signupVars, file, walker, bad_queries, extractions, collection, db, hash_seed, temp_files, call>>

\* The file removed on the way of the normal return only.
TempAfterCall_OnlyOnReturn(files, u, pc) ==
    IF pc = "return" THEN files \ {u} ELSE files

\* Lines 484-487: the finally clause removes the temporary file.
TempAfterCall(files, u, pc) == files \ {u}

\* Lines 484-487: the temporary file is removed and the call ends.
ProcessEnd ==
    /\ idx.pc \in {"return", "raise"}
    /\ temp_files' = TempAfterCall(temp_files, idx.upload, idx.pc)
    /\ call' = [op |-> "index", upload |-> idx.upload, ready |-> idx.ready,
                outcome |-> IF idx.pc = "return" THEN "returned" ELSE "raised",
                temp_created |-> TRUE, extracted |-> idx.cause # "extract",
                adds |-> idx.adds, chunks |-> idx.chunks, log |-> idx.log,
                cause |-> idx.cause]
    /\ idx' = Idle
    /\ UNCHANGED <<signupVars, file, walker, bad_queries, extractions, collection, db, hash_seed>>

\* main.py line 76: the names upload_code_file passes on.
EndpointAccepts(u) == u.bytes.ext \in {".c", ".cpp", ".h"}

\* main.py lines 76-89: what upload_code_file answers for the call of
\* process_and_store_uploaded_file it made.
UploadAnswer(c) ==
    IF ~EndpointAccepts(c.upload) THEN "400"
    ELSE IF c.outcome = "returned" THEN "processed and indexed successfully"
    ELSE "500"

\* retrieve_relevant_chunks(query, top_k, similarity_threshold, filter_type)
\* on the store as it is.
Retrieve ==
    /\ Quiet
    /\ \E q \in Queries, top_k \in 1..MaxTopK, t \in Thresholds, ft \in Filters :
        IF RetrievalSkipped(collection)
        THEN call' = [op |-> "retrieve", ready |-> FALSE, outcome |-> "returned",
                      query |-> q, top_k |-> top_k, similarity_threshold |-> t, filter_type |-> ft,
                      results |-> <<>>, returned |-> <<>>]
        ELSE \E r \in StoreQuery(db, q, top_k, ft) :
                call' = [op |-> "retrieve", ready |-> TRUE, outcome |-> "returned",
                         query |-> q, top_k |-> top_k,
                         similarity_threshold |-> t, filter_type |-> ft,
                         results |-> Neighbours(db, q, r),
                         returned |-> RankNeighbours(Neighbours(db, q, r), t)]
    /\ UNCHANGED <<signupVars, file, walker, bad_queries, extractions, collection, db, hash_seed, temp_files, idx>>

NextStore ==
    \/ Lifespan
    \/ Restart
    \/ ClearCodebase
    \/ ProcessBegin
    \/ ProcessExtract
    \/ EmbedFails
    \/ ProcessChunk
    \/ ProcessFinal
    \/ CountFails
    \/ ProcessEnd
    \/ Retrieve
    \/ Respond

SpecStore == InitStore /\ [][NextStore]_vars

---------------------------------------------------------------------------
(* retrieve_relevant_chunks on any answer of the store *)

\* The documents a store may hold: the chunks of the uploads under their
\* file names.
ItemsOf(u) ==
    LET chunks == extract_code_chunks(TempFile(u), {})
    IN  { [chunks[k] EXCEPT !.source = original_filename(u)] : k \in 1..Len(chunks) }

StoredItems == UNION { ItemsOf(u) : u \in Uploads }

\* The answers of collection.query: at most n_results neighbours that pass
\* the where clause, in any order, at any distances (one document may be
\* held under several ids).
Answers(top_k, filter) ==
    LET pool == IF filter = "" THEN StoredItems
                ELSE { i \in StoredItems : i.type = filter }
    IN  UNION { [1..n -> [item : pool, distance : 0..MaxDist]] : n \in 0..top_k }

InitRetrieve ==
    /\ file = Notes
    /\ walker = NotStarted
    /\ bad_queries = {}
    /\ extractions = <<>>
    /\ hash_seed = 0
    /\ collection = "open"
    /\ db = {}
    /\ temp_files = {}
    /\ idx = Idle
    /\ call = NoCall
    /\ SignupStart

RetrieveAny ==
    /\ Quiet
    /\ ~RetrievalSkipped(collection)
    /\ \E top_k \in 1..MaxTopK, t \in Thresholds, ft \in Filters :
        \E results \in Answers(top_k, ft) :
            call' = [op |-> "retrieve", ready |-> TRUE, outcome |-> "returned",
                     query |-> 0, top_k |-> top_k, similarity_threshold |-> t, filter_type |-> ft,
                     results |-> results,
                     returned |-> RankNeighbours(results, t)]
    /\ UNCHANGED <<signupVars, file, walker, bad_queries, extractions, collection, db, hash_seed, temp_files, idx>>

NextRetrieve == RetrieveAny \/ Respond

SpecRetrieve == InitRetrieve /\ [][NextRetrieve]_vars

---------------------------------------------------------------------------
(* frontend/server.py: /api/signup.  Every request is served by its own
   thread with its own connection to database.db; a request's steps are
   the statements of signup() that touch the table. *)

\* The table holds a row with this email.
EmailTaken(rows, email) == \E u \in rows : u.email = email

\* Some accounts exist before the requests arrive, or none.
InitSignup ==
    /\ file = Notes
    /\ walker = NotStarted
    /\ bad_queries = {}
    /\ extractions = <<>>
    /\ hash_seed = 0
    /\ StoreStart
    /\ users \in {{}, {[id |-> 1, email |-> "bob@example.org"]}}
    /\ writer = 0
    /\ signups = [r \in Requests |-> NotSent]

\* Lines 68-75: the fields are read; a request that lacks one is answered
\* 400 (the empty email stands for any missing field).
SignupReceive(r) ==
    /\ signups[r].pc = "new"
    /\ \E email \in Emails \cup {""} :
          signups' = [signups EXCEPT ![r] =
              IF email = ""
              THEN [pc |-> "done", email |-> email,
                    answer |-> "400 All fields are required"]
              ELSE [pc |-> "select", email |-> email, answer |-> ""]]
    /\ UNCHANGED <<users, writer, file, walker, bad_queries, extractions, collection, db, hash_seed, temp_files, idx, call>>

\* Lines 80-87: SELECT on the request's own connection sees the committed
\* rows; a row with the email ends the request with 400.
SignupSelect(r) ==
    /\ signups[r].pc = "select"
    /\ signups' = [signups EXCEPT ![r] =
          IF EmailTaken(users, signups[r].email)
          THEN [@ EXCEPT !.pc = "done", !.answer = "400 Email already exists"]
          ELSE [@ EXCEPT !.pc = "insert"]]
    /\ UNCHANGED <<users, writer, file, walker, bad_queries, extractions, collection, db, hash_seed, temp_files, idx, call>>

\* Lines 90-91: INSERT opens the transaction and takes the write lock (it
\* waits while another connection holds it); email TEXT UNIQUE of line 33
\* makes it raise IntegrityError when a row with the email has been
\* committed, which line 110 turns into a 500.
SignupInsert(r) ==
    /\ signups[r].pc = "insert"
    /\ writer = 0
    /\ IF EmailTaken(users, signups[r].email)
       THEN /\ signups' = [signups EXCEPT ![r] =
                  [@ EXCEPT !.pc = "done",
                            !.answer = "500 UNIQUE constraint failed: users.email"]]
            /\ writer' = writer
       ELSE /\ signups' = [signups EXCEPT ![r] = [@ EXCEPT !.pc = "commit"]]
            /\ writer' = r
    /\ UNCHANGED <<users, file, walker, bad_queries, extractions, collection, db, hash_seed, temp_files, idx, call>>

\* Lines 92-108: the row is committed, the lock released, the request
\* answered with success.
SignupCommit(r) ==
    /\ signups[r].pc = "commit"
    /\ users' = users \cup {[id |-> Cardinality(users) + 1,
                              email |-> signups[r].email]}
    /\ writer' = 0
    /\ signups' = [signups EXCEPT ![r] = [@ EXCEPT !.pc = "done",
                                                   !.answer = "success"]]
    /\ UNCHANGED <<file, walker, bad_queries, extractions, collection, db, hash_seed, temp_files, idx, call>>

NextSignup ==
    \E r \in Requests :
        \/ SignupReceive(r)
        \/ SignupSelect(r)
        \/ SignupInsert(r)
        \/ SignupCommit(r)

SpecSignup == InitSignup /\ [][NextSignup]_vars

---------------------------------------------------------------------------
(* Claims on extract_code_chunks, under SpecExtract *)

Disjoint(a, b) == a[2] <= b[1] \/ b[2] <= a[1]

\* The nodes Classify hands to add_chunk.
Classified(f, i) ==
    Classify(f, [cursor |-> i, pc |-> "walk", chunks |-> <<>>,
                 processed_nodes |-> {}, scope_stack |-> <<>>], i).chunks # <<>>

\* The call has returned the chunks of a file it could parse.
Extracted ==
    /\ walker.pc = "done"
    /\ LanguageOf(splitext(file)) # ""
    /\ LanguageOf(splitext(file)) \notin bad_queries
    /\ file.readable

\* C1: in every state of one extraction pass, any two distinct accepted
\* chunks have disjoint byte ranges (neither holds the other, equal ranges
\* included, and they do not intersect), and every accepted range is the
\* range of exactly one chunk of the list.
C1_OverlapFree ==
    /\ \A a, b \in walker.processed_nodes : a # b => Disjoint(a, b)
    /\ Len(walker.chunks) = Cardinality(walker.processed_nodes)

\* A finished pass that accepted two chunks and rejected a classified node.
C1_Witness ==
    /\ walker.pc = "done"
    /\ Cardinality(walker.processed_nodes) >= 2
    /\ \E i \in 1..NodeCount(file) :
          /\ Classified(file, i)
          /\ <<start_byte(file, i), end_byte(file, i), node_type(file, i)>>
                \notin walker.processed_nodes

\* The nearest enclosing class_specifier with a name, 0 when there is none.
EnclosingClass(f, i) ==
    LET cs == {a \in AncSelf(f.par, i) \ {0, i} : ClassMatch(f.lab[a])}
    IN  IF cs = {} THEN 0 ELSE Max(cs)

\* C10: once a C++ file is extracted, every function defined inside a class
\* body has a function chunk whose class_name is the name of the nearest
\* enclosing class.
C10_MemberFunctionHasClassName ==
    (Extracted /\ LanguageOf(splitext(file)) = "cpp") =>
        \A i \in 1..NodeCount(file) :
            (/\ file.lab[i].type = "function_definition"
             /\ file.lab[i].scope = ""
             /\ EnclosingClass(file, i) # 0)
            => \E k \in 1..Len(walker.chunks) :
                 /\ walker.chunks[k].type \in {"function", "test_case_function"}
                 /\ walker.chunks[k].function_name = file.lab[i].name
                 /\ walker.chunks[k].start_line = start_line(file, i)
                 /\ walker.chunks[k].content = get_node_content(file, i)
                 /\ walker.chunks[k].class_name = file.lab[EnclosingClass(file, i)].name

\* C11: the C file of a struct Point on line 1, a function add on line 2
\* and a comment on line 3 yields exactly three chunks, in this order:
\* struct Point at line 1, function add at line 2, comment at line 3.
C11_StructFunctionComment ==
    (file = ScenarioA /\ Extracted) =>
        /\ Len(walker.chunks) = 3
        /\ walker.chunks[1].type = "struct"
        /\ walker.chunks[1].struct_name = "Point"
        /\ walker.chunks[1].start_line = 1
        /\ walker.chunks[2].type = "function"
        /\ walker.chunks[2].function_name = "add"
        /\ walker.chunks[2].start_line = 2
        /\ walker.chunks[3].type = "comment"
        /\ walker.chunks[3].start_line = 3

\* The pass over that file has ended with its last chunk at line 3.
C11_Witness ==
    /\ file = ScenarioA
    /\ Extracted
    /\ walker.visited = <<1, 2, 3, 4, 5>>
    /\ walker.chunks # <<>>
    /\ walker.chunks[Len(walker.chunks)].type = "comment"

\* The chunk c is the chunk of node i.
ChunkOfNode(f, c, i) ==
    /\ c.content = get_node_content(f, i)
    /\ c.start_line = start_line(f, i)

\* The test-naming heuristic on the unqualified name alone.
LeafIsTestName(leaf) == LeafMatchesInside(leaf) \/ LeafMatchesFromStart(leaf)

\* C12: the chunk of a function definition is a test_case_function exactly
\* when the leaf name of the function matches the test-naming heuristic,
\* and a function otherwise, whether or not the name is qualified.
C12_TestByLeafName ==
    Extracted =>
        \A i \in 1..NodeCount(file) : \A k \in 1..Len(walker.chunks) :
            (/\ file.lab[i].type = "function_definition"
             /\ ChunkOfNode(file, walker.chunks[k], i))
            => /\ walker.chunks[k].type \in {"function", "test_case_function"}
               /\ (walker.chunks[k].type = "test_case_function"
                     <=> LeafIsTestName(file.lab[i].name))

\* The chunks from position k on belong to nodes from node from on, in
\* the order of the document.
RECURSIVE InDocumentOrder(_, _, _, _)
InDocumentOrder(f, chunks, k, from) ==
    IF k > Len(chunks) THEN TRUE
    ELSE \E i \in from..NodeCount(f) :
            /\ ChunkOfNode(f, chunks[k], i)
            /\ InDocumentOrder(f, chunks, k + 1, i + 1)

\* C13: the list a call returns, on each of its return paths, is ascending
\* by start_line, and its chunks are in the order of the document (so chunks
\* of one line are in traversal order).
C13_AscendingByStartLine ==
    walker.pc = "done" =>
        /\ \A k \in 1..(Len(walker.chunks) - 1) :
              walker.chunks[k].start_line <= walker.chunks[k + 1].start_line
        /\ InDocumentOrder(file, walker.chunks, 1, 1)

\* A list returned with two chunks of one line and a chunk of a later line.
C13_Witness ==
    /\ walker.pc = "done"
    /\ \E j, k \in 1..Len(walker.chunks) :
          /\ j + 1 = k
          /\ walker.chunks[j].start_line = walker.chunks[k].start_line
    /\ \E j, k \in 1..Len(walker.chunks) :
          walker.chunks[j].start_line < walker.chunks[k].start_line

\* C14: a call on a file whose extension has no grammar, or that cannot be
\* read, returns the empty list: it visits no node, raises nothing and the
\* store is as it was.
C14_SkippedFileGivesEmptyList ==
    (walker.pc # "start" /\ (LanguageOf(splitext(file)) = "" \/ ~file.readable)) =>
        /\ walker.pc = "done"
        /\ walker.chunks = <<>>
        /\ walker.visited = <<>>
        /\ db = {}

\* The call has returned for a C/C++ file with constructs in it that
\* cannot be opened.
C14_Witness ==
    /\ walker.pc = "done"
    /\ ~file.readable
    /\ LanguageOf(splitext(file)) # ""
    /\ LanguageOf(splitext(file)) \notin bad_queries
    /\ \E i \in 1..NodeCount(file) : Classified(file, i)

\* C16: when the query patterns of the file's grammar family do not
\* compile, the extraction call ends in an error, never in a list.
C16_QueryFailureIsFatal ==
    (/\ walker.pc # "start"
     /\ LanguageOf(splitext(file)) # ""
     /\ LanguageOf(splitext(file)) \in bad_queries)
    => walker.pc = "raised"

\* C21: after the visit of a node, no frame of the scope stack ends at or
\* before the start of that node (the frames the visit found expired are
\* all gone, the frame it pushed ends after its start), and the ends of the
\* frames never increase from the bottom of the stack to its top.
C21_NoExpiredFrame ==
    walker.visited # <<>> =>
        LET i == walker.visited[Len(walker.visited)]
            stack == walker.scope_stack
        IN  /\ \A k \in 1..Len(stack) : stack[k].end_byte > start_byte(file, i)
            /\ \A k \in 1..(Len(stack) - 1) : stack[k].end_byte >= stack[k + 1].end_byte

\* The comment after the two structs has been visited: the frames of both
\* structs, expired at once, are popped.
C21_Witness ==
    /\ file = ScenarioNested
    /\ Extracted
    /\ walker.visited = <<1, 2, 3, 4>>
    /\ walker.scope_stack = <<>>
    /\ Len(walker.chunks) = 2

\* C23: every top-level typedef of a struct, with or without a tag, yields
\* one struct chunk that covers the typedef and is named by the alias (by
\* the tag when there is no alias), and its struct specifier yields no
\* chunk.
C23_TypedefStructOneChunk ==
    Extracted =>
        \A i \in 1..NodeCount(file) :
            (/\ file.lab[i].type = "type_definition"
             /\ file.par[i] = 0
             /\ (file.lab[i].alias # "" \/ file.lab[i].name # "")
             /\ \E j \in (i + 1)..SubtreeLast(file, i) :
                   file.lab[j].type = "struct_specifier" /\ file.par[j] = i)
            => /\ \E k \in 1..Len(walker.chunks) :
                    /\ ChunkOfNode(file, walker.chunks[k], i)
                    /\ walker.chunks[k].type = "struct"
                    /\ walker.chunks[k].struct_name
                          = IF file.lab[i].alias # "" THEN file.lab[i].alias
                            ELSE file.lab[i].name
               /\ \A j \in (i + 1)..SubtreeLast(file, i) :
                    file.lab[j].type = "struct_specifier" =>
                        \A k \in 1..Len(walker.chunks) :
                            ~ChunkOfNode(file, walker.chunks[k], j)

\* The ranges of nodes i and j: one holds the other.
Nested(f, i, j) ==
    \/ (start_byte(f, j) <= start_byte(f, i) /\ end_byte(f, i) <= end_byte(f, j))
    \/ (start_byte(f, i) <= start_byte(f, j) /\ end_byte(f, j) <= end_byte(f, i))

\* The nodes emitted among the first n of the document when the first
\* visited wins.
RECURSIVE FirstWins(_, _)
FirstWins(f, n) ==
    IF n = 0 THEN {}
    ELSE LET before == FirstWins(f, n - 1)
         IN  IF Classified(f, n) /\ \A j \in before : ~Nested(f, n, j)
             THEN before \cup {n}
             ELSE before

\* The k-th smallest number of S.
NthOf(S, k) == CHOOSE x \in S : Cardinality({y \in S : y <= x}) = k

\* C24: the chunks emitted so far are those of the classified nodes
\* visited so far that nest with no node emitted before them, in the order
\* of the visits.
C24_FirstVisitedWins ==
    LET won == FirstWins(file, Len(walker.visited))
    IN  /\ Len(walker.chunks) = Cardinality(won)
        /\ \A k \in 1..Len(walker.chunks) :
              ChunkOfNode(file, walker.chunks[k], NthOf(won, k))

\* A pass has ended that emitted a chunk and visited a comment or a
\* function inside it without emitting it.
C24_Witness ==
    /\ Extracted
    /\ \E i \in FirstWins(file, NodeCount(file)) :
       \E j \in (i + 1)..SubtreeLast(file, i) :
          /\ file.lab[j].type \in {"comment", "function_definition"}
          /\ Classified(file, j)
          /\ j \notin FirstWins(file, NodeCount(file))
    /\ Len(walker.chunks) >= 2

\* C25: a step that emits a chunk finds no frame of the scope stack over
\* the start of the node, and the chunk is the one the classifier builds
\* from its own arguments on an empty stack.
C25_NamesNeverFromStack ==
    [][(walker.pc = "walk" /\ Len(walker'.chunks) > Len(walker.chunks)) =>
          /\ \A k \in 1..Len(walker.scope_stack) :
                walker.scope_stack[k].end_byte <= start_byte(file, walker.cursor)
          /\ walker'.chunks
                = Classify(file, [walker EXCEPT !.scope_stack = <<>>], walker.cursor).chunks
      ]_vars

\* A comment was emitted with an empty struct_name after a struct chunk
\* whose frame had been pushed, and a function chunk carries the qualifier
\* of its declarator or none.
C25_Witness ==
    /\ Extracted
    /\ \E j, k \in 1..Len(walker.chunks) :
          /\ j < k
          /\ walker.chunks[j].type = "struct"
          /\ walker.chunks[j].struct_name # ""
          /\ walker.chunks[k].type \in {"comment", "function"}
          /\ walker.chunks[k].struct_name = ""

\* C20: the cursor is on every node below the root exactly once, in
\* pre-order (a node's children before its next sibling), and the walk of
\* every tree ends.
C20_PreOrderWalkEnds ==
    /\ [](/\ walker.visited = [k \in 1..Len(walker.visited) |-> k]
          /\ walker.pc = "walk" => walker.cursor = Len(walker.visited) + 1
          /\ Extracted => Len(walker.visited) = NodeCount(file))
    /\ <>(walker.pc = "done")

\* The walk of a tree has ended after the cursor, on a last child of a
\* last child, climbed two levels to reach a next sibling.
C20_Witness ==
    /\ Extracted
    /\ Len(walker.visited) = NodeCount(file)
    /\ \E i \in 1..NodeCount(file) :
          /\ IsLeaf(file, i)
          /\ file.par[i] # 0
          /\ goto_next_sibling(file, i) = 0
          /\ goto_next_sibling(file, file.par[i]) = 0
          /\ Advance(file, i) # 0

---------------------------------------------------------------------------
(* Claims on calls side by side, under SpecTwoCalls *)

---------------------------------------------------------------------------
(* Claims on the indexer, under SpecStore *)

Triple(item) == <<item.source, item.start_line, item.content>>

Retrieved == call.op = "retrieve" /\ call.ready

Range(seq) == {seq[k] : k \in 1..Len(seq)}

\* C2: indexing the same file again adds nothing: the store holds every
\* (source, start_line, content) under one identity only, so a query finds
\* each chunk of the file once, however often the file was indexed.
C2_IndexingIsIdempotent ==
    \A e1, e2 \in db : Triple(e1.item) = Triple(e2.item) => e1.id = e2.id

\* C3: the identity the indexer computes for a (source, start_line, content)
\* is the identity every earlier run, in this process or one before it, gave
\* to the same triple.
C3_IdentityIsStable ==
    idx.pc # "idle" =>
        \A k \in 1..Len(idx.batch) : \A e \in db :
            Triple(idx.batch[k].item) = Triple(e.item) => idx.batch[k].id = e.id

\* C9: an indexing call without a store raises before any other effect: no
\* temporary file, no extraction, no add call; no indexing work is ever
\* under way while the collection is None.
C9_IndexingFailsFast ==
    /\ collection = "None" => (idx.pc = "idle" /\ temp_files = {})
    /\ (call.op = "index" /\ ~call.ready) =>
          /\ call.outcome = "raised"
          /\ ~call.temp_created
          /\ ~call.extracted
          /\ call.adds = 0

\* An indexing call was made without a store and has raised.
C9_Witness ==
    /\ call.op = "index"
    /\ ~call.ready
    /\ call.outcome = "raised"
    /\ collection = "None"

\* The entries of the first n chunks of a file, in the order of the list.
Entries(seed, name, chunks, n) ==
    [k \in 1..n |-> BatchEntry(seed, name, chunks[k])]

\* The entries handed to collection.add by the first k add calls.
RECURSIVE Submitted(_, _)
Submitted(log, k) ==
    IF k = 0 THEN <<>> ELSE Submitted(log, k - 1) \o log[k].batch

\* C15: an add call that fails is reported, its batch is never sent again,
\* every later batch is sent, and the indexing call returns: unless
\* extraction or embedding raised, the call returns, and the add calls
\* together were handed each chunk of the file exactly once, in order,
\* whichever of them failed.
C15_FailedBatchIsSkipped ==
    /\ idx.pc \in {"loop", "return", "raise"} =>
          Submitted(idx.log, Len(idx.log)) \o idx.batch
              = Entries(hash_seed, original_filename(idx.upload), idx.chunks,
                        idx.pos - 1)
    /\ (call.op = "index" /\ call.ready) =>
          /\ call.outcome = "raised" => call.cause \in {"extract", "embed", "count"}
          /\ call.cause = "none" =>
                /\ call.outcome = "returned"
                /\ Submitted(call.log, Len(call.log))
                      = Entries(hash_seed, original_filename(call.upload),
                                call.chunks, Len(call.chunks))
          /\ \A j \in 1..Len(call.log) :
                ~call.log[j].ok => call.log[j].line = "Error adding batch"

\* An indexing call has returned after its first add call failed and a
\* later one went through.
C15_Witness ==
    /\ call.op = "index"
    /\ call.ready
    /\ call.outcome = "returned"
    /\ Len(call.log) >= 2
    /\ ~call.log[1].ok
    /\ call.log[Len(call.log)].ok

\* C22: the add calls of one indexing call carry the chunks of the file in
\* extraction order, each chunk in exactly one call; every call carries
\* between 1 and batch_size chunks, every call but the last carries exactly
\* batch_size, and the calls number ceil(n / batch_size), none for n = 0.
C22_BatchesCoverChunksInOrder ==
    /\ idx.pc = "loop" =>
          /\ Len(idx.batch) < BatchSize
          /\ \A j \in 1..Len(idx.log) : Len(idx.log[j].batch) = BatchSize
    /\ (call.op = "index" /\ call.outcome = "returned") =>
          LET n == Len(call.chunks)
              calls == Len(call.log)
          IN  /\ calls = (n + BatchSize - 1) \div BatchSize
              /\ call.adds = calls
              /\ \A j \in 1..calls : Len(call.log[j].batch) \in 1..BatchSize
              /\ \A j \in 1..(calls - 1) : Len(call.log[j].batch) = BatchSize
              /\ Submitted(call.log, calls)
                    = Entries(hash_seed, original_filename(call.upload),
                              call.chunks, n)

\* An indexing call has returned after a full batch and a final batch that
\* was not full.
C22_Witness ==
    /\ call.op = "index"
    /\ call.outcome = "returned"
    /\ Len(call.log) >= 2
    /\ Len(call.log[1].batch) = BatchSize
    /\ Len(call.log[Len(call.log)].batch) < BatchSize

\* C26: the chunks of one extracted list get pairwise distinct ids, and no
\* add call carries an id twice.
C26_IdsPairwiseDistinct ==
    idx.pc \in {"loop", "return"} =>
        LET es == Entries(hash_seed, original_filename(idx.upload), idx.chunks,
                          Len(idx.chunks))
        IN  /\ \A i, j \in 1..Len(es) : i # j => es[i].id # es[j].id
            /\ \A k \in 1..Len(idx.log) : ~AddRefused(idx.log[k].batch)

\* C27: when upload_code_file answers with its success message, every chunk
\* extracted from the file is in the store.
C27_SuccessMeansStored ==
    (call.op = "index" /\ call.ready
        /\ UploadAnswer(call) = "processed and indexed successfully") =>
        \A k \in 1..Len(call.chunks) :
            \E e \in db :
                e = BatchEntry(hash_seed, original_filename(call.upload),
                               call.chunks[k])

C29_UnknownExtensionIndexedAsCpp ==
    (call.op = "index" /\ call.ready /\ call.cause = "none"
        /\ call.upload.bytes.ext \notin {".c", ".cpp", ".h", ".hpp", ".cxx"}) =>
        /\ call.outcome = "returned"
        /\ call.extracted
        /\ call.chunks
              = extract_code_chunks([call.upload.bytes EXCEPT !.ext = ".cpp"],
                                    bad_queries)
        /\ Submitted(call.log, Len(call.log))
              = Entries(hash_seed, original_filename(call.upload), call.chunks,
                        Len(call.chunks))
        /\ \A j \in 1..Len(call.log) : \A k \in 1..Len(call.log[j].batch) :
              call.log[j].ok => call.log[j].batch[k] \in db
        /\ extract_code_chunks(call.upload.bytes, bad_queries) = <<>>

\* The indexing of notes.txt has returned and its comment is in the store.
C29_Witness ==
    /\ call.op = "index"
    /\ call.outcome = "returned"
    /\ call.upload.bytes.ext = ".txt"
    /\ Len(call.chunks) = 1
    /\ call.chunks[1].type = "comment"
    /\ \E e \in db : e.item.source = "notes.txt"

\* The request has been answered with success.
Succeeded(r) == signups[r].pc = "done" /\ signups[r].answer = "success"

\* C30: whatever the interleaving of the signup requests, no two rows of
\* users have the same email, at most one of the requests with one email
\* is answered with success, and every other request with that email is
\* answered 400 'Email already exists'.
C30_OneSignupPerEmail ==
    /\ \A u1, u2 \in users : u1.email = u2.email => u1 = u2
    /\ \A r1, r2 \in Requests :
          (Succeeded(r1) /\ Succeeded(r2)
              /\ signups[r1].email = signups[r2].email) => r1 = r2
    /\ \A r1, r2 \in Requests :
          (r1 # r2 /\ Succeeded(r1) /\ signups[r2].pc = "done"
              /\ signups[r2].email = signups[r1].email) =>
              signups[r2].answer = "400 Email already exists"

\* The entries of the store that a query with this filter, top_k and
\* threshold cannot miss: under the threshold, with fewer than top_k other
\* candidates as near.
SureNeighbours(store, q, top_k, t, filter) ==
    { e \in Matching(store, filter) :
        /\ Dist(q, e.item.content) < t
        /\ Cardinality({ o \in Matching(store, filter) \ {e} :
                Dist(q, o.item.content) <= Dist(q, e.item.content) }) < top_k }

\* C18: when an indexing call returns, every chunk of a batch it committed
\* is in the store; the store loses nothing unless it is cleared; and a
\* retrieval returns every chunk of the store that is under the threshold
\* and within the top_k neighbours of the query.
C18_CommittedChunksAreVisible ==
    /\ []((call.op = "index" /\ call.ready) =>
            \A j \in 1..Len(call.log) :
                call.log[j].ok => Range(call.log[j].batch) \subseteq db)
    /\ [][db \subseteq db' \/ call'.op = "clear"]_vars
    /\ [](Retrieved =>
            \A e \in SureNeighbours(db, call.query, call.top_k,
                                     call.similarity_threshold, call.filter_type) :
                \E k \in 1..Len(call.returned) : call.returned[k].item = e.item)

\* A retrieval on a store of several chunks returned a chunk it could not
\* miss, while another chunk of the store is not returned.
C18_Witness ==
    /\ Retrieved
    /\ call.returned # <<>>
    /\ Cardinality(db) >= 3
    /\ SureNeighbours(db, call.query, call.top_k,
                      call.similarity_threshold, call.filter_type) # {}
    /\ \E e \in db : \A k \in 1..Len(call.returned) : call.returned[k].item # e.item

---------------------------------------------------------------------------
(* Claims on retrieve_relevant_chunks *)

\* C4: every chunk returned is one of the at most top_k neighbours of the
\* store's answer and is nearer than the threshold; at most top_k chunks
\* are returned, and none at threshold 0.
C4_UnderThresholdWithinTopK ==
    Retrieved =>
        /\ Len(call.results) <= call.top_k
        /\ Len(call.returned) <= call.top_k
        /\ \A k \in 1..Len(call.returned) :
              /\ call.returned[k] \in Range(call.results)
              /\ call.returned[k].distance < call.similarity_threshold
        /\ call.similarity_threshold = 0 => call.returned = <<>>

\* A retrieval that returned a chunk and dropped a neighbour at exactly the
\* threshold.
C4_Witness ==
    /\ Retrieved
    /\ call.returned # <<>>
    /\ \E j \in 1..Len(call.results) :
          call.results[j].distance = call.similarity_threshold

\* C5: for the same answer of the store, a lower threshold returns a subset
\* and a higher threshold a superset of what this call returned.
C5_ThresholdMonotone ==
    Retrieved =>
        \A t \in Thresholds :
            /\ t <= call.similarity_threshold =>
                  Range(RankNeighbours(call.results, t)) \subseteq Range(call.returned)
            /\ t >= call.similarity_threshold =>
                  Range(call.returned) \subseteq Range(RankNeighbours(call.results, t))

\* A retrieval that returned a chunk and would return more at a higher
\* threshold and less at a lower one.
C5_Witness ==
    /\ Retrieved
    /\ call.returned # <<>>
    /\ \E t \in Thresholds :
          Range(RankNeighbours(call.results, t)) # Range(call.returned)
          /\ t > call.similarity_threshold
    /\ \E t \in Thresholds :
          Range(RankNeighbours(call.results, t)) # Range(call.returned)
          /\ t < call.similarity_threshold

\* C6: no two chunks returned agree on (content, source, start_line, kind,
\* names), and of the neighbours under the threshold that agree on it the
\* nearest is the one returned.
C6_DeduplicatedNearestKept ==
    Retrieved =>
        /\ \A j, k \in 1..Len(call.returned) :
              j # k => call.returned[j].item # call.returned[k].item
        /\ \A j \in 1..Len(call.results) :
              call.results[j].distance < call.similarity_threshold =>
                  \E k \in 1..Len(call.returned) :
                      /\ call.returned[k].item = call.results[j].item
                      /\ call.returned[k].distance <= call.results[j].distance

\* The store answered with one document twice, the nearer one last, both
\* under the threshold.
C6_Witness ==
    /\ Retrieved
    /\ \E j, k \in 1..Len(call.results) :
          /\ j < k
          /\ call.results[j].item = call.results[k].item
          /\ call.results[k].distance < call.results[j].distance
          /\ call.results[j].distance < call.similarity_threshold
    /\ Len(call.returned) = 1

\* C7: the distances of the list returned never decrease from one entry to
\* the next, in whatever order the store listed the neighbours.
C7_SortedByDistance ==
    Retrieved =>
        \A k \in 1..(Len(call.returned) - 1) :
            call.returned[k].distance <= call.returned[k + 1].distance

\* The store listed a farther neighbour first, and both were returned.
C7_Witness ==
    /\ Retrieved
    /\ Len(call.returned) = 2
    /\ Len(call.results) = 2
    /\ call.results[1].distance > call.results[2].distance

\* C8: a retrieval made while the collection is None ends in an error for
\* its caller, never in an empty list.
C8_RetrievalWithoutStoreRaises ==
    (call.op = "retrieve" /\ ~call.ready) => call.outcome = "raised"

====
